---- MODULE Spec2Model ----
\* A model of the typed routing core of pampi (src/pipeline/core.py):
\* Map, Router, Router.constrain, Router.__rshift__ and pcompile.
EXTENDS Integers, Sequences, FiniteSets, TLC

\* ---------------------------------------------------------------- bounds
\* most stages in a stage list handed to pcompile
MaxStages == 3
\* most members of a Router handed to pcompile or built by Router(...)
MaxMaps == 3
\* most parameters of a function handed to Map
MaxParams == 2

\* ---------------------------------------------------------------- values
\* type tags are Python classes, compared by identity (op.is_)
TypeSeq == <<"A", "B">>
Types == {TypeSeq[i] : i \in DOMAIN TypeSeq}
\* the Python value None (not a class) and the class type(None)
NoneVal == "None"
NoneType == "NoneType"
\* the values a caller can apply a compiled callable to
Values == {<<"x">>, <<"y">>}

\* an Optional[List[Type]] argument: None, or a list
NoneList == [none |-> TRUE, list |-> <<>>]
Some(l) == [none |-> FALSE, list |-> l]

\* the outcome of a call: a raised exception, or a returned reference, which is
\* either to an object the call created (distinct from every object that
\* existed before it) or to an object that existed before the call
Ok(v) == [exc |-> "none", val |-> v, new |-> FALSE]
New(v) == [exc |-> "none", val |-> v, new |-> TRUE]
Raise(e) == [exc |-> e]
\* an exception with its message: the pieces of text the message is made of,
\* a replacement field of an f-string being the piece it is replaced with
RaiseMsg(e, msg) == [exc |-> e, msg |-> msg]

Range(s) == {s[i] : i \in DOMAIN s}

\* further classes a caller of Map can hold: a subclass of A, and a second
\* class object that is also named 'A'
SubA == "SubA"
OtherA == "OtherA"
Classes == Types \cup {SubA, OtherA, NoneType}
\* a value that is neither None nor a class (the int 5)
NotAClass == "5"

\* cls.__name__
__name__(t) == IF t = OtherA THEN "A" ELSE t

issubclass(a, b) == a = b \/ (a = SubA /\ b = "A")

\* the kinds of inspect.Parameter
POSITIONAL_ONLY == "POSITIONAL_ONLY"
POSITIONAL_OR_KEYWORD == "POSITIONAL_OR_KEYWORD"
VAR_POSITIONAL == "VAR_POSITIONAL"
KEYWORD_ONLY == "KEYWORD_ONLY"
VAR_KEYWORD == "VAR_KEYWORD"

\* a parameter of a signature: its kind, and whether it has a default
Param(kind, default) == [kind |-> kind, default |-> default]

\* the object handed to Map as f: whether it is callable, the parameters
\* inspect.signature reports for it (for f itself when it is a function, for
\* its bound __call__ otherwise), and the primitive functions it runs
Function(params, prims) ==
    [callable |-> TRUE, params |-> params, prims |-> prims]

NotCallable == [callable |-> FALSE, params |-> <<>>, prims |-> <<>>]

\* an fn.F instance: its __call__ is (self, *args, **kwargs)
FObject(prims) ==
    Function(<<Param(VAR_POSITIONAL, FALSE), Param(VAR_KEYWORD, FALSE)>>, prims)

\* ---------------------------------------------------------------- core.py
POS_ARGS == {POSITIONAL_ONLY, POSITIONAL_OR_KEYWORD, VAR_POSITIONAL}

isclass(t) == t \in Classes

\* faulty variant: a subclass matches its base
_typematch_issubclass(a, b) == issubclass(a, b)

_typematch(a, b) == a = b

_signmatch(s1, s2) == _typematch(s1[1], s2[1]) /\ _typematch(s1[2], s2[2])

\* faulty variant: the two codomains are compared
_composable_codomains(l, r) == _typematch(l.codomain, r.codomain)

_composable(l, r) == _typematch(l.codomain, r.domain)

signature(m) == <<m.domain, m.codomain>>

\* faulty variant: only neighbouring members are compared
_redundant_adjacent(maps) ==
    \E i \in DOMAIN maps : \E j \in DOMAIN maps :
        j = i + 1 /\ _signmatch(signature(maps[i]), signature(maps[j]))

_redundant(maps) ==
    \E i \in DOMAIN maps : \E j \in DOMAIN maps :
        i < j /\ _signmatch(signature(maps[i]), signature(maps[j]))

\* fn.F: a wrapped function is the sequence of primitive functions it runs,
\* first to last; f >> g runs f and then g on f's result
\* faulty variant: g runs first
F_rshift_reversed(f, g) == g \o f

F_rshift(f, g) == f \o g

\* faulty variant: every primitive function runs twice
RECURSIVE F_call_twice(_, _)
F_call_twice(f, value) ==
    IF f = <<>> THEN value
    ELSE F_call_twice(Tail(f), Append(Append(value, Head(f)), Head(f)))

\* a primitive (user supplied) function is opaque: applying it extends the
\* term it is given
RECURSIVE F_call(_, _)
F_call(f, value) ==
    IF f = <<>> THEN value
    ELSE F_call(Tail(f), Append(value, Head(f)))

positional(fn) == SelectSeq(fn.params, LAMBDA p : p.kind \in POS_ARGS)

nrequired(fn) ==
    LET pos == positional(fn)
    IN  Cardinality({i \in DOMAIN pos :
                        ~pos[i].default /\ pos[i].kind # VAR_POSITIONAL})

\* faulty variant: None is not replaced by type(None)
Map_init_keepnone(domain, codomain, fn) ==
    IF ~isclass(domain) THEN Raise("ValueError")
    ELSE IF ~isclass(codomain) THEN Raise("ValueError")
    ELSE IF ~fn.callable THEN Raise("ValueError")
    ELSE IF nrequired(fn) > 1 THEN Raise("ValueError")
    ELSE IF Len(positional(fn)) < 1 THEN Raise("ValueError")
    ELSE New([cls |-> "Map", domain |-> domain, codomain |-> codomain,
              f |-> fn.prims])

\* faulty variant: exactly one required positional parameter is demanded
Map_init_exactly_one(domain, codomain, fn) ==
    LET d == IF domain = NoneVal THEN NoneType ELSE domain
        c == IF codomain = NoneVal THEN NoneType ELSE codomain
    IN  IF ~isclass(d) THEN Raise("ValueError")
        ELSE IF ~isclass(c) THEN Raise("ValueError")
        ELSE IF ~fn.callable THEN Raise("ValueError")
        ELSE IF nrequired(fn) # 1 THEN Raise("ValueError")
        ELSE New([cls |-> "Map", domain |-> d, codomain |-> c,
                  f |-> fn.prims])

\* Map.__init__: the Map keeps F(f), the primitive functions f runs
Map_init(domain, codomain, fn) ==
    LET d == IF domain = NoneVal THEN NoneType ELSE domain
        c == IF codomain = NoneVal THEN NoneType ELSE codomain
    IN  IF ~isclass(d) THEN Raise("ValueError")
        ELSE IF ~isclass(c) THEN Raise("ValueError")
        ELSE IF ~fn.callable THEN Raise("ValueError")
        ELSE IF nrequired(fn) > 1 THEN Raise("ValueError")
        ELSE IF Len(positional(fn)) < 1 THEN Raise("ValueError")
        ELSE New([cls |-> "Map", domain |-> d, codomain |-> c,
                  f |-> fn.prims])

\* Map(domain, codomain, f) for an fn.F instance f
Map(domain, codomain, f) == Map_init(domain, codomain, FObject(f))

Map_call(self, value) == F_call(self.f, value)

\* the primitive functions a call of the Map on `value` runs, in the order
\* they run: each one left its name in the term the call returns
Map_invokes(self, value) ==
    LET returned == Map_call(self, value)
    IN  SubSeq(returned, Len(value) + 1, Len(returned))

\* faulty variant: the result takes its ends from the wrong operands
Map_rshift_swapped(self, other) ==
    IF other.cls # "Map" THEN Raise("ValueError")
    ELSE IF ~_composable(self, other) THEN Raise("ValueError")
    ELSE Map(other.domain, self.codomain, F_rshift(self.f, other.f))

Map_rshift(self, other) ==
    IF other.cls # "Map" THEN Raise("ValueError")
    ELSE IF ~_composable(self, other) THEN Raise("ValueError")
    ELSE Map(self.domain, other.codomain, F_rshift(self.f, other.f))

\* faulty variant: no redundancy check
Router_unchecked(name, maps) ==
    IF \E i \in DOMAIN maps : maps[i].cls # "Map" THEN Raise("ValueError")
    ELSE New([cls |-> "Router", name |-> name, maps |-> maps])

Router(name, maps) ==
    IF \E i \in DOMAIN maps : maps[i].cls # "Map" THEN Raise("ValueError")
    ELSE IF _redundant(maps) THEN Raise("RedundancyError")
    ELSE New([cls |-> "Router", name |-> name, maps |-> maps])

domains(self) == [i \in DOMAIN self.maps |-> self.maps[i].domain]

codomains(self) == [i \in DOMAIN self.maps |-> self.maps[i].codomain]

signatures(self) == [i \in DOMAIN self.maps |-> signature(self.maps[i])]

match_any(t, options) ==
    options.none \/ \E i \in DOMAIN options.list : _typematch(t, options.list[i])

\* faulty variant: unconstrained, a copy of the Router is returned
constrain_copy(self, doms, cods) ==
    IF \E t \in Range(doms.list) \cup Range(cods.list) : ~isclass(t)
    THEN Raise("ValueError")
    ELSE LET keep(m) == match_any(m.domain, doms) /\ match_any(m.codomain, cods)
         IN  Router(self.name, SelectSeq(self.maps, keep))

\* faulty variant: a member is kept when either constraint admits it
constrain_either(self, doms, cods) ==
    IF \E t \in Range(doms.list) \cup Range(cods.list) : ~isclass(t)
    THEN Raise("ValueError")
    ELSE IF doms.none /\ cods.none THEN Ok(self)
    ELSE LET keep(m) == match_any(m.domain, doms) \/ match_any(m.codomain, cods)
         IN  Router(self.name, SelectSeq(self.maps, keep))

constrain(self, doms, cods) ==
    IF \E t \in Range(doms.list) \cup Range(cods.list) : ~isclass(t)
    THEN Raise("ValueError")
    ELSE IF doms.none /\ cods.none THEN Ok(self)
    ELSE LET keep(m) == match_any(m.domain, doms) /\ match_any(m.codomain, cods)
         IN  Router(self.name, SelectSeq(self.maps, keep))

\* faulty variant: a left member is composed with its first composable right
\* member only
RECURSIVE compositions_first(_, _, _, _)
compositions_first(left, right, i, j) ==
    IF i > Len(left) THEN <<>>
    ELSE IF j > Len(right) THEN compositions_first(left, right, i + 1, 1)
    ELSE IF _composable(left[i], right[j])
         THEN <<Map_rshift(left[i], right[j]).val>>
                  \o compositions_first(left, right, i + 1, 1)
         ELSE compositions_first(left, right, i, j + 1)

\* ValueError(f'right-hand operand is not an instance of {type(self).__name__}')
NotARouterOperand ==
    RaiseMsg("ValueError",
             <<"right-hand operand is not an instance of ", "Router">>)

\* ValueError(f'not all routers are instances of {Router.__name__}')
NotAllRouters ==
    RaiseMsg("ValueError", <<"not all routers are instances of ", "Router">>)

\* `head, *tail = routers` on an empty list
UnpackError ==
    RaiseMsg("ValueError",
             <<"not enough values to unpack (expected at least 1, got 0)">>)

\* faulty variant: the right operand is the outer loop of the product
RECURSIVE compositions_rightmajor(_, _, _, _)
compositions_rightmajor(left, right, i, j) ==
    IF j > Len(right) THEN <<>>
    ELSE IF i > Len(left) THEN compositions_rightmajor(left, right, 1, j + 1)
    ELSE IF _composable(left[i], right[j])
         THEN <<Map_rshift(left[i], right[j]).val>>
                  \o compositions_rightmajor(left, right, i + 1, j)
         ELSE compositions_rightmajor(left, right, i + 1, j)

\* product(left, right) in its order (left outer, right inner), filtered by
\* _composable, each surviving pair composed with Map >> Map
RECURSIVE compositions(_, _, _, _)
compositions(left, right, i, j) ==
    IF i > Len(left) THEN <<>>
    ELSE IF j > Len(right) THEN compositions(left, right, i + 1, 1)
    ELSE IF _composable(left[i], right[j])
         THEN <<Map_rshift(left[i], right[j]).val>>
                  \o compositions(left, right, i, j + 1)
         ELSE compositions(left, right, i, j + 1)

\* faulty variant: the left pre-filter constrains domains instead of codomains
Router_rshift_domains(self, other) ==
    IF other.cls # "Router" THEN NotARouterOperand
    ELSE LET name == self.name \o other.name
         IN  IF Len(self.maps) = 0 \/ Len(other.maps) = 0
             THEN Router(name, <<>>)
             ELSE LET left == constrain(self, Some(domains(other)), NoneList)
                      right == constrain(other, Some(codomains(left.val)), NoneList)
                  IN  IF left.exc # "none" THEN left
                      ELSE IF right.exc # "none" THEN right
                      ELSE Router(name,
                               compositions(left.val.maps, right.val.maps, 1, 1))

\* faulty variant: an empty right operand returns the left operand
Router_rshift_keepself(self, other) ==
    IF other.cls # "Router" THEN NotARouterOperand
    ELSE LET name == self.name \o other.name
         IN  IF Len(self.maps) = 0 \/ Len(other.maps) = 0
             THEN Ok(self)
             ELSE LET left == constrain(self, NoneList, Some(domains(other)))
                      right == constrain(other, Some(codomains(left.val)), NoneList)
                  IN  IF left.exc # "none" THEN left
                      ELSE IF right.exc # "none" THEN right
                      ELSE Router(name,
                               compositions(left.val.maps, right.val.maps, 1, 1))

\* faulty variant: the compositions are not checked for redundancy
Router_rshift_unchecked(self, other) ==
    IF other.cls # "Router" THEN NotARouterOperand
    ELSE LET name == self.name \o other.name
         IN  IF Len(self.maps) = 0 \/ Len(other.maps) = 0
             THEN Router(name, <<>>)
             ELSE LET left == constrain(self, NoneList, Some(domains(other)))
                      right == constrain(other, Some(codomains(left.val)), NoneList)
                  IN  IF left.exc # "none" THEN left
                      ELSE IF right.exc # "none" THEN right
                      ELSE New([cls |-> "Router", name |-> name,
                                maps |-> compositions(left.val.maps,
                                                      right.val.maps, 1, 1)])

\* f'{self.name} -> {other.name}': a name is the list of the base names it
\* joins with ' -> '
Router_rshift(self, other) ==
    IF other.cls # "Router" THEN NotARouterOperand
    ELSE LET name == self.name \o other.name
         IN  IF Len(self.maps) = 0 \/ Len(other.maps) = 0
             THEN Router(name, <<>>)
             ELSE LET left == constrain(self, NoneList, Some(domains(other)))
                      right == constrain(other, Some(codomains(left.val)), NoneList)
                  IN  IF left.exc # "none" THEN left
                      ELSE IF right.exc # "none" THEN right
                      ELSE Router(name,
                               compositions(left.val.maps, right.val.maps, 1, 1))

\* reduce(op.rshift, tail, initial); an exception ends the fold
RECURSIVE reduce_rshift(_, _)
reduce_rshift(acc, tail) ==
    IF acc.exc # "none" \/ tail = <<>> THEN acc
    ELSE reduce_rshift(Router_rshift(acc.val, Head(tail)), Tail(tail))

\* t.__name__ exists for a class and not for None.  The message of
\* AmbiguousError is two adjacent literals, of which only the first is an
\* f-string: the replacement fields of the second stay as they are written
AmbiguousError(input, output) ==
    IF isclass(input) /\ isclass(output)
    THEN RaiseMsg("AmbiguousError",
                  <<"there are several valid routes ",
                    "from {input} to {output}">>)
    ELSE Raise("AttributeError")

NoRouteError(input, output) ==
    IF isclass(input) /\ isclass(output)
    THEN RaiseMsg("NoRouteError",
                  <<"there is no route from ", __name__(input),
                    " to ", __name__(output)>>)
    ELSE Raise("AttributeError")

\* faulty variant: a RedundancyError of the fold is not translated
pcompile_constrained_uncaught(rs, input, output) ==
    IF \E i \in DOMAIN rs : rs[i].cls # "Router" THEN NotAllRouters
    ELSE IF Len(rs) = 1
    THEN constrain(rs[1], Some(<<input>>), Some(<<output>>))
    ELSE IF Len(rs) = 0 THEN UnpackError
    ELSE LET composed ==
                 reduce_rshift(
                     constrain(Head(rs), Some(<<input>>), NoneList),
                     Tail(rs))
         IN  IF composed.exc # "none" THEN composed
             ELSE constrain(composed.val, NoneList, Some(<<output>>))

\* faulty variant: only the first element of the stage list is validated
pcompile_constrained_headonly(rs, input, output) ==
    IF Len(rs) >= 1 /\ rs[1].cls # "Router" THEN NotAllRouters
    ELSE IF Len(rs) = 1
    THEN constrain(rs[1], Some(<<input>>), Some(<<output>>))
    ELSE IF Len(rs) = 0 THEN UnpackError
    ELSE LET composed ==
                 reduce_rshift(
                     constrain(Head(rs), Some(<<input>>), NoneList),
                     Tail(rs))
         IN  IF composed.exc = "RedundancyError"
             THEN AmbiguousError(input, output)
             ELSE IF composed.exc # "none" THEN composed
             ELSE constrain(composed.val, NoneList, Some(<<output>>))

\* faulty variant: an empty stage list is an empty route
pcompile_constrained_emptyroute(rs, input, output) ==
    IF \E i \in DOMAIN rs : rs[i].cls # "Router" THEN NotAllRouters
    ELSE IF Len(rs) = 1
    THEN constrain(rs[1], Some(<<input>>), Some(<<output>>))
    ELSE IF Len(rs) = 0 THEN Router(<<>>, <<>>)
    ELSE LET composed ==
                 reduce_rshift(
                     constrain(Head(rs), Some(<<input>>), NoneList),
                     Tail(rs))
         IN  IF composed.exc = "RedundancyError"
             THEN AmbiguousError(input, output)
             ELSE IF composed.exc # "none" THEN composed
             ELSE constrain(composed.val, NoneList, Some(<<output>>))

\* the body of pcompile up to its final Router `constrained`
pcompile_constrained(rs, input, output) ==
    IF \E i \in DOMAIN rs : rs[i].cls # "Router" THEN NotAllRouters
    ELSE IF Len(rs) = 1
    THEN constrain(rs[1], Some(<<input>>), Some(<<output>>))
    ELSE IF Len(rs) = 0 THEN UnpackError
    ELSE LET composed ==
                 reduce_rshift(
                     constrain(Head(rs), Some(<<input>>), NoneList),
                     Tail(rs))
         IN  IF composed.exc = "RedundancyError"
             THEN AmbiguousError(input, output)
             ELSE IF composed.exc # "none" THEN composed
             ELSE constrain(composed.val, NoneList, Some(<<output>>))

\* the rest of pcompile: the emptiness test and the return statement
pcompile_return(c, input, output) ==
    IF c.exc # "none" THEN c
    ELSE IF Len(c.val.maps) = 0 THEN NoRouteError(input, output)
    ELSE Ok(c.val.maps[1])

pcompile(rs, input, output) ==
    pcompile_return(pcompile_constrained(rs, input, output), input, output)

\* ---------------------------------------------------------------- inputs
NTypes == Len(TypeSeq)
NSigs == NTypes * NTypes
SigAt(n) == <<TypeSeq[((n - 1) \div NTypes) + 1], TypeSeq[((n - 1) % NTypes) + 1]>>

RECURSIVE Ascending(_)
Ascending(S) ==
    IF S = {} THEN <<>>
    ELSE LET n == CHOOSE x \in S : \A y \in S : x <= y
         IN  <<n>> \o Ascending(S \ {n})

\* stage k built from the signatures numbered by S: its member with signature
\* (d, c) wraps the primitive function named <<k, d, c>>
StageOf(k, S) ==
    LET ns == Ascending(S)
    IN  Router(<<k>>,
               [i \in DOMAIN ns |->
                   Map(SigAt(ns[i])[1], SigAt(ns[i])[2],
                       <<<<k, SigAt(ns[i])[1], SigAt(ns[i])[2]>>>>).val]).val

SigSets == {S \in SUBSET (1 .. NSigs) : Cardinality(S) <= MaxMaps}

\* the stage lists of n stages
StageLists(n) == {[k \in 1 .. n |-> StageOf(k, c[k])] : c \in [1 .. n -> SigSets]}

\* every list of at most MaxMaps Maps; position i of a list built for the
\* Router named `who` wraps the primitive function named <<who, d, c>>
MemberLists(who) ==
    UNION {{[i \in 1 .. n |->
                Map(SigAt(c[i])[1], SigAt(c[i])[2],
                    <<<<who, SigAt(c[i])[1], SigAt(c[i])[2]>>>>).val] :
                        c \in [1 .. n -> 1 .. NSigs]} : n \in 0 .. MaxMaps}

\* the constraint arguments a caller passes to constrain: None, or a list of
\* classes, or a list holding the non-class None
ConstraintArgs ==
    {NoneList} \cup
        {Some(l) : l \in {<<>>, <<"A">>, <<"B">>, <<"A", "B">>, <<NoneVal>>}}

\* the values a caller passes to Map as domain or codomain
TypeArgs == Classes \cup {NoneVal, NotAClass}

\* the order Python imposes on the parameters of a signature
KindRank(kind) ==
    CASE kind = POSITIONAL_ONLY -> 1
      [] kind = POSITIONAL_OR_KEYWORD -> 2
      [] kind = VAR_POSITIONAL -> 3
      [] kind = KEYWORD_ONLY -> 4
      [] kind = VAR_KEYWORD -> 5

Params ==
    {Param(k, d) : k \in {POSITIONAL_ONLY, POSITIONAL_OR_KEYWORD, KEYWORD_ONLY},
                   d \in BOOLEAN}
        \cup {Param(VAR_POSITIONAL, FALSE), Param(VAR_KEYWORD, FALSE)}

\* the parameter lists a def or lambda can have: kinds in order, one *args and
\* one **kwargs at most, no positional parameter without a default after one
\* with a default
ValidSignature(s) ==
    \A i \in DOMAIN s : \A j \in DOMAIN s :
        i < j =>
            /\ KindRank(s[i].kind) <= KindRank(s[j].kind)
            /\ s[i].kind \in {VAR_POSITIONAL, VAR_KEYWORD}
                   => s[i].kind # s[j].kind
            /\ (s[i].default /\ KindRank(s[j].kind) <= 2) => s[j].default

Signatures ==
    UNION {{s \in [1 .. n -> Params] : ValidSignature(s)} : n \in 0 .. MaxParams}

\* the objects a caller passes to Map as f, each running the primitive
\* function `prim`: a non-callable, an fn.F instance, and a function of every
\* signature
FunctionArgs(prim) ==
    {NotCallable, FObject(<<prim>>)}
        \cup {Function(s, <<prim>>) : s \in Signatures}

\* something a caller can put into a stage list in place of a Router: a Map
NotARouter == Map("A", "B", <<<<"m", "A", "B">>>>).val

\* the stage lists of 1 .. MaxStages elements drawn from two Routers and
\* NotARouter that hold NotARouter at least once
IntrudedLists(left, right) ==
    UNION {{rs \in [1 .. n -> {left, right, NotARouter}] :
               \E i \in 1 .. n : rs[i] = NotARouter} : n \in 1 .. MaxStages}

\* ---------------------------------------------------------------- machine
\* pcompile and the call of its result
VARIABLES routers, input, output, pc, constrained, result, applied
\* the wrapped functions that have run so far, in the order they ran
VARIABLE invoked
\* a caller of the Router operations: the list it last built a Router from,
\* the two Routers it holds, the receiver before its last operation, and that
\* operation's outcome
VARIABLES members, lhs, rhs, was, last, phase

\* a caller of the Map operations: the arguments of its last Map(...), the type
\* arguments its two Maps were built from, the two Maps, the outcome of
\* mapA >> mapB, and the value it applied the result to with what it got
VARIABLES margs, mgiven, mapA, mapB, mapAB, mvalue, mstep

varsM == <<margs, mgiven, mapA, mapB, mapAB, mvalue, mstep>>
varsP == <<routers, input, output, pc, constrained, result, applied, invoked>>
varsR == <<members, lhs, rhs, was, last, phase>>

\* a caller of the join functions: which of them it calls, the name templates
\* and the parsed samples it passes, and what the call returned
VARIABLES jkind, jtemplates, jsamples, joined

\* a caller that composes three Routers in both groupings: the Routers and
\* the outcomes of (ra >> rb) >> rc and of ra >> (rb >> rc)
VARIABLES ra, rb, rc, leftFirst, rightFirst, astep

varsJ == <<jkind, jtemplates, jsamples, joined>>
\* the file system and the SampleFiles resources of a pipeline run: the files
\* that exist, the driver's input sample and the product of a stage, the
\* outcome of the last operation, and every os.remove a release has done
VARIABLES fs, held, flast, removed

varsA == <<ra, rb, rc, leftFirst, rightFirst, astep>>
varsF == <<fs, held, flast, removed>>
varsX == <<varsJ, varsA, varsF>>
vars == <<varsP, varsR, varsM, varsX>>

NotJoined == [done |-> FALSE, out |-> <<>>]

IdleJ ==
    /\ jkind = "idle"
    /\ jtemplates = <<>>
    /\ jsamples = <<>>
    /\ joined = NotJoined

IdleA ==
    /\ ra = Router(<<"a">>, <<>>).val
    /\ rb = Router(<<"b">>, <<>>).val
    /\ rc = Router(<<"c">>, <<>>).val
    /\ leftFirst = Raise("pending")
    /\ rightFirst = Raise("pending")
    /\ astep = "idle"

\* no SampleFiles object yet
NoResource ==
    [made |-> FALSE, files |-> <<>>, released |-> FALSE, delete |-> FALSE]

NoOperation ==
    [op |-> "none", id |-> "none", exc |-> "none", val |-> NoneVal,
     was |-> FALSE, gone |-> {}]

IdleF ==
    /\ fs = {}
    /\ held = [id \in {"sample", "product"} |-> NoResource]
    /\ flast = [NoOperation EXCEPT !.op = "idle"]
    /\ removed = {}

IdleX == IdleJ /\ IdleA /\ IdleF

EmptyRouter(who) == Router(<<who>>, <<>>).val

InitP ==
    /\ \E n \in 0 .. MaxStages : routers \in StageLists(n)
    /\ input \in Types
    /\ output \in Types \cup {NoneVal}
    /\ pc = "start"
    /\ constrained = Raise("pending")
    /\ result = Raise("pending")
    /\ applied = <<>>
    /\ invoked = <<>>

IdleP ==
    /\ input = "A"
    /\ output = "A"
    /\ routers = <<>>
    /\ pc = "idle"
    /\ constrained = Raise("pending")
    /\ result = Raise("pending")
    /\ applied = <<>>
    /\ invoked = <<>>

InitR ==
    /\ members = <<>>
    /\ lhs = EmptyRouter("l")
    /\ rhs = EmptyRouter("r")
    /\ was = EmptyRouter("l")
    /\ last = [op |-> "none", exc |-> "none"]
    /\ phase = "left"

IdleR ==
    /\ members = <<>>
    /\ lhs = EmptyRouter("l")
    /\ rhs = EmptyRouter("r")
    /\ was = EmptyRouter("l")
    /\ last = [op |-> "none", exc |-> "none"]
    /\ phase = "idle"

NoArgs == [domain |-> NoneVal, codomain |-> NoneVal, fn |-> NotCallable]

InitM ==
    /\ margs = NoArgs
    /\ mgiven = <<>>
    /\ mapA = Raise("pending")
    /\ mapB = Raise("pending")
    /\ mapAB = Raise("pending")
    /\ mvalue = <<>>
    /\ mstep = "first"

IdleM ==
    /\ margs = NoArgs
    /\ mgiven = <<>>
    /\ mapA = Raise("pending")
    /\ mapB = Raise("pending")
    /\ mapAB = Raise("pending")
    /\ mvalue = <<>>
    /\ mstep = "idle"

\* the driver compiles its stage list
Pcompile ==
    /\ pc = "start"
    /\ constrained' = pcompile_constrained(routers, input, output)
    /\ result' = pcompile(routers, input, output)
    /\ pc' = "compiled"
    /\ UNCHANGED <<routers, input, output, applied, invoked>>
    /\ UNCHANGED <<varsR, varsM, varsX>>

\* the driver applies the compiled callable to a value
Call ==
    /\ pc = "compiled"
    /\ result.exc = "none"
    /\ \E v \in Values :
           /\ applied' = Map_call(result.val, v)
           /\ invoked' = invoked \o Map_invokes(result.val, v)
    /\ pc' = "called"
    /\ UNCHANGED <<routers, input, output, constrained, result>>
    /\ UNCHANGED <<varsR, varsM, varsX>>

Next == Pcompile \/ Call

Init == InitP /\ IdleR /\ IdleM /\ IdleX

Spec == Init /\ [][Next]_vars

\* lhs = Router('l', ms): a raised exception leaves lhs as it was and ends the
\* caller
ConstructLeft ==
    /\ phase = "left"
    /\ \E ms \in MemberLists("l") :
           LET r == Router(<<"l">>, ms)
           IN  /\ members' = ms
               /\ last' = [op |-> "construct", exc |-> r.exc]
               /\ lhs' = IF r.exc = "none" THEN r.val ELSE lhs
               /\ phase' = IF r.exc = "none" THEN "right" ELSE "raised"
    /\ UNCHANGED <<rhs, was>>
    /\ UNCHANGED <<varsP, varsM, varsX>>

\* rhs = Router('r', ms)
ConstructRight ==
    /\ phase = "right"
    /\ \E ms \in MemberLists("r") :
           LET r == Router(<<"r">>, ms)
           IN  /\ members' = ms
               /\ last' = [op |-> "construct", exc |-> r.exc]
               /\ rhs' = IF r.exc = "none" THEN r.val ELSE rhs
               /\ phase' = IF r.exc = "none" THEN "ops" ELSE "raised"
    /\ UNCHANGED <<lhs, was>>
    /\ UNCHANGED <<varsP, varsM, varsX>>

\* lhs = lhs.constrain(doms, cods), on a Router fresh from its constructor or
\* from >> (as pcompile constrains before and after its fold)
Constrain ==
    /\ phase = "ops"
    /\ last.op # "constrain"
    /\ \E doms \in ConstraintArgs : \E cods \in ConstraintArgs :
           LET r == constrain(lhs, doms, cods)
           IN  /\ last' = [op |-> "constrain", exc |-> r.exc,
                           domains |-> doms, codomains |-> cods,
                           new |-> r.exc = "none" /\ r.new]
               /\ lhs' = IF r.exc = "none" THEN r.val ELSE lhs
    /\ was' = lhs
    /\ UNCHANGED <<members, rhs, phase>>
    /\ UNCHANGED <<varsP, varsM, varsX>>

\* lhs = lhs >> rhs, as reduce(op.rshift, ...) rebinds its accumulator
Rshift ==
    /\ phase = "ops"
    /\ Len(lhs.name) < MaxStages
    /\ LET r == Router_rshift(lhs, rhs)
       IN  /\ last' = [op |-> "rshift", exc |-> r.exc,
                       new |-> r.exc = "none" /\ r.new]
           /\ lhs' = IF r.exc = "none" THEN r.val ELSE lhs
    /\ was' = lhs
    /\ UNCHANGED <<members, rhs, phase>>
    /\ UNCHANGED <<varsP, varsM, varsX>>

\* pcompile([left >> right], input, output) on the Router the last >> built;
\* the caller ends with its outcome
CompileComposed ==
    /\ phase = "ops"
    /\ last.op = "rshift" /\ last.exc = "none"
    /\ routers' = <<lhs>>
    /\ input' \in Types
    /\ output' \in Types
    /\ constrained' = pcompile_constrained(routers', input', output')
    /\ result' = pcompile(routers', input', output')
    /\ pc' = "compiled"
    /\ phase' = "compiled"
    /\ UNCHANGED <<applied, invoked, members, lhs, rhs, was, last>>
    /\ UNCHANGED <<varsM, varsX>>

\* pcompile on a stage list of the caller's two Routers into which something
\* that is not a Router (a Map) has found its way; the caller ends with its
\* outcome
CompileIntruded ==
    /\ phase = "ops"
    /\ last.op = "construct"
    /\ routers' \in IntrudedLists(lhs, rhs)
    /\ input' \in Types
    /\ output' \in Types \cup {NoneVal}
    /\ constrained' = pcompile_constrained(routers', input', output')
    /\ result' = pcompile(routers', input', output')
    /\ pc' = "compiled"
    /\ phase' = "intruded"
    /\ UNCHANGED <<applied, invoked, members, lhs, rhs, was, last>>
    /\ UNCHANGED <<varsM, varsX>>

NextRouter ==
    \/ ConstructLeft \/ ConstructRight \/ Constrain \/ Rshift
    \/ CompileComposed \/ CompileIntruded

InitRouter == IdleP /\ InitR /\ IdleM /\ IdleX

SpecRouter == InitRouter /\ [][NextRouter]_vars

\* mapA = Map(domain, codomain, f): a raised exception ends the caller
MapConstructA ==
    /\ mstep = "first"
    /\ \E d \in TypeArgs : \E c \in TypeArgs : \E fn \in FunctionArgs("f") :
           LET r == Map_init(d, c, fn)
           IN  /\ margs' = [domain |-> d, codomain |-> c, fn |-> fn]
               /\ mapA' = r
               /\ mgiven' = IF r.exc = "none" THEN <<<<d, c>>>> ELSE mgiven
               /\ mstep' = IF r.exc = "none" THEN "second" ELSE "raised"
    /\ UNCHANGED <<mapB, mapAB, mvalue>>
    /\ UNCHANGED <<varsP, varsR, varsX>>

\* mapB = Map(domain, codomain, g) for a function g of one parameter
MapConstructB ==
    /\ mstep = "second"
    /\ \E d \in TypeArgs : \E c \in TypeArgs :
           LET fn == Function(<<Param(POSITIONAL_OR_KEYWORD, FALSE)>>, <<"g">>)
               r == Map_init(d, c, fn)
           IN  /\ margs' = [domain |-> d, codomain |-> c, fn |-> fn]
               /\ mapB' = r
               /\ mgiven' = IF r.exc = "none" THEN Append(mgiven, <<d, c>>)
                             ELSE mgiven
               /\ mstep' = IF r.exc = "none" THEN "ops" ELSE "raised"
    /\ UNCHANGED <<mapA, mapAB, mvalue>>
    /\ UNCHANGED <<varsP, varsR, varsX>>

\* mapA >> mapB
MapRshift ==
    /\ mstep = "ops"
    /\ mapAB' = Map_rshift(mapA.val, mapB.val)
    /\ mstep' = IF mapAB'.exc = "none" THEN "composed" ELSE "raised"
    /\ UNCHANGED <<margs, mgiven, mapA, mapB, mvalue>>
    /\ UNCHANGED <<varsP, varsR, varsX>>

\* (mapA >> mapB)(v)
MapCall ==
    /\ mstep = "composed"
    /\ \E v \in Values :
           /\ mvalue' = <<v, Map_call(mapAB.val, v)>>
           /\ invoked' = invoked \o Map_invokes(mapAB.val, v)
    /\ mstep' = "called"
    /\ UNCHANGED <<margs, mgiven, mapA, mapB, mapAB>>
    /\ UNCHANGED <<routers, input, output, pc, constrained, result, applied>>
    /\ UNCHANGED <<varsR, varsX>>

NextMap == MapConstructA \/ MapConstructB \/ MapRshift \/ MapCall

InitMap == IdleP /\ IdleR /\ InitM /\ IdleX

SpecMap == InitMap /\ [][NextMap]_vars

\* ---------------------------------------------------------------- chains
\* A chain through stages 1..k picks one member per stage, each member's
\* codomain being the next member's domain: c[i] is the position of its member
\* in stage i.
Member(rs, c, i) == rs[i].maps[c[i]]

Entries(rs, k, t) == {j \in DOMAIN rs[k].maps : rs[k].maps[j].domain = t}

\* the chains through stages 1..k whose first member has domain `from`
RECURSIVE ChainsFrom(_, _, _)
ChainsFrom(rs, k, from) ==
    IF k = 1 THEN {<<j>> : j \in Entries(rs, 1, from)}
    ELSE UNION {{Append(c, j) :
                    j \in Entries(rs, k, Member(rs, c, k - 1).codomain)} :
                        c \in ChainsFrom(rs, k - 1, from)}

\* the chains through stages 1..k that lead from `from` to `to`
Chains(rs, k, from, to) ==
    {c \in ChainsFrom(rs, k, from) : Member(rs, c, k).codomain = to}

\* the functions of a chain's members, in stage order
ChainFns(rs, c) == [i \in DOMAIN c |-> Member(rs, c, i).f[1]]

\* two distinct chains from `from` end at one type after some stage k >= 2
Collision(rs, from) ==
    \E k \in 2 .. Len(rs) : \E t \in Types :
        Cardinality(Chains(rs, k, from, t)) >= 2

Compiled == pc \in {"compiled", "called"}
Several == Len(routers) >= 2
FullChains == Chains(routers, Len(routers), input, output)

Returns(c) ==
    /\ result.exc = "none"
    /\ result.val.domain = input
    /\ result.val.codomain = output
    /\ result.val.f = ChainFns(routers, c)

\* ---------------------------------------------------------------- claims
\* C1 as stated: for two or more stages, whenever exactly one chain of members
\* leads from inputType to outputType, pcompile returns it (it fails only when
\* zero or several such chains exist).
C1_ReturnsTheOnlyChain ==
    (Compiled /\ Several /\ output \in Types /\ Cardinality(FullChains) = 1)
        => \E c \in FullChains : Returns(c)

\* C1 amended: for two or more stages, whenever exactly one chain leads from
\* inputType to outputType and no two distinct chains from inputType end at
\* one type after any stage, pcompile returns that chain.
C1_ReturnsTheOnlyChainUnlessCollision ==
    (Compiled /\ Several /\ output \in Types /\ Cardinality(FullChains) = 1
         /\ ~Collision(routers, input))
        => \E c \in FullChains : Returns(c)

C1_Witness ==
    /\ Compiled /\ Len(routers) = 3 /\ Cardinality(FullChains) = 1
    /\ ~Collision(routers, input)
    /\ \E c \in FullChains : Returns(c)
    /\ Len(routers[2].maps) >= 2

\* C2: for two or more stages, two distinct chains from inputType to
\* outputType make pcompile raise AmbiguousError; it returns neither.
C2_TwoChainsAreAmbiguous ==
    (Compiled /\ Several /\ output \in Types /\ Cardinality(FullChains) >= 2)
        => result.exc = "AmbiguousError"

C2_Witness ==
    /\ Compiled /\ Several /\ output \in Types
    /\ Cardinality(FullChains) >= 2
    /\ result.exc = "AmbiguousError"

\* C3: for n >= 2 stages, the callable pcompile returns, applied to v, yields
\* fn(...f2(f1(v))...) for a chain f1..fn of members leading from inputType to
\* outputType.
C3_CallRunsAChainInOrder ==
    (pc = "called" /\ Several)
        => \E v \in Values : \E c \in FullChains :
               applied = v \o ChainFns(routers, c)

C3_Witness ==
    /\ pc = "called" /\ Len(routers) = 3
    /\ \E v \in Values : \E c \in FullChains :
           applied = v \o ChainFns(routers, c)

\* C4: for exactly one stage, pcompile returns the member whose signature is
\* (inputType, outputType) when there is one and raises NoRouteError when there
\* is none; it never raises AmbiguousError.
SingleMatches ==
    {i \in DOMAIN routers[1].maps :
        signature(routers[1].maps[i]) = <<input, output>>}

C4_SingleStage ==
    (Compiled /\ Len(routers) = 1 /\ output \in Types)
        => /\ SingleMatches # {}
               => \E i \in SingleMatches : result = Ok(routers[1].maps[i])
           /\ SingleMatches = {} => result.exc = "NoRouteError"
           /\ result.exc # "AmbiguousError"

C4_Witness ==
    /\ Compiled /\ Len(routers) = 1 /\ output \in Types
    /\ Len(routers[1].maps) >= 2
    /\ \E i \in SingleMatches : result = Ok(routers[1].maps[i])

C4_WitnessNoRoute ==
    /\ Compiled /\ Len(routers) = 1 /\ output \in Types
    /\ \E i \in DOMAIN routers[1].maps : routers[1].maps[i].domain = input
    /\ result.exc = "NoRouteError"

\* C5: pcompile called with None as the output type returns a callable when
\* the stages route the input type to a single result.
RoutesToOneResult ==
    /\ Len(routers) >= 1
    /\ ~Collision(routers, input)
    /\ Cardinality(UNION {Chains(routers, Len(routers), input, t) : t \in Types}) = 1

C5_NoneOutputReturns ==
    (Compiled /\ output = NoneVal /\ RoutesToOneResult) => result.exc = "none"

\* C8: whenever pcompile reaches its return statement, the final constrained
\* Router holds exactly one Map.
C8_ReturnHasOneCandidate ==
    (Compiled /\ result.exc = "none")
        => /\ constrained.exc = "none"
           /\ Len(constrained.val.maps) = 1
           /\ result.val = constrained.val.maps[1]

C8_Witness ==
    /\ Compiled /\ Len(routers) = 3 /\ result.exc = "none"
    /\ Len(constrained.val.maps) = 1
    /\ \E t \in Types \ {output} :
           Chains(routers, Len(routers), input, t) # {}

\* C9: for two or more stages and valid type tags, pcompile raises NoRouteError
\* exactly when no fold step collides and no chain leads from inputType to
\* outputType; in particular when no member of the first stage has domain
\* inputType.
C9_NoRouteExactly ==
    (Compiled /\ Several /\ output \in Types)
        => /\ result.exc = "NoRouteError"
               <=> (~Collision(routers, input) /\ FullChains = {})
           /\ (\A i \in DOMAIN routers[1].maps : routers[1].maps[i].domain # input)
               => result.exc = "NoRouteError"

C9_Witness ==
    /\ Compiled /\ Len(routers) = 3 /\ output \in Types
    /\ result.exc = "NoRouteError"
    /\ Chains(routers, 2, input, "A") # {}

C9_WitnessNoEntry ==
    /\ Compiled /\ Several /\ output \in Types
    /\ routers[1].maps # <<>>
    /\ \A i \in DOMAIN routers[1].maps : routers[1].maps[i].domain # input
    /\ result.exc = "NoRouteError"

\* C10: for n >= 2 stages, pcompile raises AmbiguousError if and only if two
\* distinct chains through stages 1..k (2 <= k <= n) lead from inputType to one
\* type T, whether or not T is outputType or can be continued to it.
C10_AmbiguousExactly ==
    (Compiled /\ Several /\ output \in Types)
        => (result.exc = "AmbiguousError" <=> Collision(routers, input))

\* ambiguity reported for a type that is not outputType and that the later
\* stage cannot continue to outputType
C10_Witness ==
    /\ Compiled /\ Len(routers) = 3 /\ output \in Types
    /\ result.exc = "AmbiguousError"
    /\ \E t \in Types \ {output} :
           /\ Cardinality(Chains(routers, 2, input, t)) >= 2
           /\ \A i \in DOMAIN routers[3].maps :
                  signature(routers[3].maps[i]) # <<t, output>>
    /\ FullChains = {}

\* test_core.py: the layered graph the stage list is drawn from has a node
\* <<i, t>> for type t in layer i (0 .. n); stage i holds one Map per edge from
\* layer i - 1 to layer i
Edges(rs, node) ==
    IF node[1] >= Len(rs) THEN <<>>
    ELSE LET ms == SelectSeq(rs[node[1] + 1].maps,
                             LAMBDA m : m.domain = node[2])
         IN  [i \in DOMAIN ms |-> <<node[1] + 1, ms[i].codomain>>]

\* the loop of _bfs: a node taken from the queue a second time is ambiguous
RECURSIVE _bfs_loop(_, _, _, _, _)
_bfs_loop(rs, queue, visited, reachable, out) ==
    IF queue = <<>>
    THEN IF reachable THEN "REACHABLE" ELSE "UNREACHABLE"
    ELSE LET node == Head(queue)
         IN  IF node \in visited THEN "AMBIGUOUS"
             ELSE _bfs_loop(rs, Tail(queue) \o Edges(rs, node),
                            visited \cup {node},
                            reachable \/ node = out, out)

_bfs(rs, in, out) == _bfs_loop(rs, <<in>>, {}, FALSE, out)

Verdict == _bfs(routers, <<0, input>>, <<Len(routers), output>>)

\* C11: for a layered stage list of n >= 2 Routers, pcompile returns a callable
\* if and only if outputType is reachable from inputType through the stages
\* and no type at any stage is reached from inputType by two distinct chains;
\* its outcome agrees with the breadth-first search of the layered graph:
\* REACHABLE is a return, AMBIGUOUS is AmbiguousError, UNREACHABLE is
\* NoRouteError.
C11_AgreesWithBfs ==
    (Compiled /\ Several /\ output \in Types)
        => LET verdict == Verdict
           IN  /\ result.exc = "none"
                      <=> (FullChains # {} /\ ~Collision(routers, input))
               /\ result.exc = "none" <=> verdict = "REACHABLE"
               /\ result.exc = "AmbiguousError" <=> verdict = "AMBIGUOUS"
               /\ result.exc = "NoRouteError" <=> verdict = "UNREACHABLE"

C11_Witness ==
    /\ Compiled /\ Len(routers) = 3 /\ output \in Types
    /\ result.exc = "none" /\ Verdict = "REACHABLE"
    /\ \A k \in 1 .. 3 : Len(routers[k].maps) >= 2

C11_WitnessAmbiguous ==
    /\ Compiled /\ Len(routers) = 3 /\ output \in Types
    /\ result.exc = "AmbiguousError" /\ Verdict = "AMBIGUOUS"
    /\ Cardinality(FullChains) <= 1

C11_WitnessUnreachable ==
    /\ Compiled /\ Len(routers) = 3 /\ output \in Types
    /\ result.exc = "NoRouteError" /\ Verdict = "UNREACHABLE"
    /\ Chains(routers, 2, input, "B") # {}

\* the message of the raised exception holds the names of both requested types
NamesTypes(msg) ==
    /\ \E i \in DOMAIN msg : msg[i] = __name__(input)
    /\ \E i \in DOMAIN msg : msg[i] = __name__(output)

\* C19: the AmbiguousError raised by pcompile carries the requested types: its
\* message identifies the names of both inputType and outputType, as the
\* NoRouteError message does.
C19_AmbiguousMessageNamesTypes ==
    (Compiled /\ result.exc = "AmbiguousError") => NamesTypes(result.msg)

\* the NoRouteError message does name both types
C19_NoRouteMessageNamesTypes ==
    (Compiled /\ result.exc = "NoRouteError") => NamesTypes(result.msg)

\* ---------------------------------------------------------------- Router claims
SameSignature(a, b) == a.domain = b.domain /\ a.codomain = b.codomain

HasDuplicate(ms) ==
    \E i \in DOMAIN ms : \E j \in DOMAIN ms : i # j /\ SameSignature(ms[i], ms[j])

Distinct(r) == ~HasDuplicate(r.maps)

\* C6: constructing a Router from a list in which two members, at any two
\* positions, have the same (domain, codomain) fails with RedundancyError, and a
\* list of pairwise distinct signatures does not.
C6_RedundancyExactly ==
    last.op = "construct"
        => (last.exc = "RedundancyError" <=> HasDuplicate(members))

\* the duplicates are the first and the last of three members
C6_Witness ==
    /\ last = [op |-> "construct", exc |-> "RedundancyError"]
    /\ Len(members) = 3
    /\ SameSignature(members[1], members[3])
    /\ ~SameSignature(members[1], members[2])

C6_WitnessDistinct ==
    /\ last = [op |-> "construct", exc |-> "none"]
    /\ Len(members) = 3

\* two distinct composable pairs (l, r) of members compose to one signature
Collide(left, right) ==
    \E i \in DOMAIN left.maps : \E j \in DOMAIN right.maps :
    \E i2 \in DOMAIN left.maps : \E j2 \in DOMAIN right.maps :
        /\ <<i, j>> # <<i2, j2>>
        /\ left.maps[i].codomain = right.maps[j].domain
        /\ left.maps[i2].codomain = right.maps[j2].domain
        /\ left.maps[i].domain = left.maps[i2].domain
        /\ right.maps[j].codomain = right.maps[j2].codomain

\* C7: every Router that exists after any sequence of constructions,
\* constrain calls and >> compositions has pairwise distinct member
\* signatures, and a >> whose compositions collide on signature raises
\* RedundancyError and produces no Router.
C7_RoutersStayDistinct ==
    /\ Distinct(lhs) /\ Distinct(rhs) /\ Distinct(was)
    /\ last.op = "rshift"
           => /\ last.exc = "RedundancyError" <=> Collide(was, rhs)
              /\ last.exc = "RedundancyError" => lhs = was

C7_Witness ==
    /\ last.op = "rshift" /\ last.exc = "RedundancyError"
    /\ Len(was.name) >= 2
    /\ Collide(was, rhs)

C7_WitnessComposed ==
    /\ last.op = "rshift" /\ last.exc = "none"
    /\ Len(lhs.name) >= 3
    /\ Len(lhs.maps) >= 2

\* the two-step chains from input to output through the operands of the last
\* >>: a member of the left operand followed by a member of the right operand
TwoStep ==
    {p \in (DOMAIN was.maps) \X (DOMAIN rhs.maps) :
        /\ was.maps[p[1]].domain = input
        /\ was.maps[p[1]].codomain = rhs.maps[p[2]].domain
        /\ rhs.maps[p[2]].codomain = output}

\* C12: whenever left >> right constructs without RedundancyError,
\* pcompile([left >> right], inputType, outputType) returns a callable (the
\* composition of the chain's two members) if a two-step chain from inputType
\* to outputType exists and raises NoRouteError if none exists; it never
\* raises AmbiguousError.
C12_ComposedCompiles ==
    phase = "compiled"
        => /\ TwoStep # {}
               => /\ result.exc = "none"
                  /\ \E p \in TwoStep :
                         result.val.f = was.maps[p[1]].f \o rhs.maps[p[2]].f
           /\ TwoStep = {} => result.exc = "NoRouteError"
           /\ result.exc # "AmbiguousError"

C12_Witness ==
    /\ phase = "compiled" /\ TwoStep # {} /\ result.exc = "none"
    /\ Len(lhs.maps) >= 2
    /\ Len(was.maps) >= 2 /\ Len(rhs.maps) >= 2

C12_WitnessNoRoute ==
    /\ phase = "compiled" /\ TwoStep = {} /\ result.exc = "NoRouteError"
    /\ Len(lhs.maps) >= 1
    /\ \E i \in DOMAIN was.maps : was.maps[i].domain = input

\* C17: for any Router, constrain(None, None) returns the very same Router
\* object it was called on, not a copy: the returned reference is to no newly
\* created object, and it is the receiver.
C17_UnconstrainedIsSelf ==
    (last.op = "constrain" /\ last.domains.none /\ last.codomains.none)
        => /\ last.exc = "none"
           /\ ~last.new
           /\ lhs = was

C17_Witness ==
    /\ last.op = "constrain" /\ last.domains.none /\ last.codomains.none
    /\ ~last.new /\ lhs = was
    /\ Len(lhs.name) >= 2 /\ Len(lhs.maps) >= 2

\* a constraint that is given filters into a newly built Router even when it
\* keeps every member
C17_WitnessCopy ==
    /\ last.op = "constrain" /\ ~last.domains.none
    /\ last.new /\ lhs = was /\ Len(lhs.maps) >= 2

\* the last constrain admits m
Admitted(m) ==
    /\ last.domains.none \/ m.domain \in Range(last.domains.list)
    /\ last.codomains.none \/ m.codomain \in Range(last.codomains.list)

\* C18: for any Router and any constraint lists of type tags,
\* constrain(domains, codomains) returns a Router whose members are exactly the
\* original members whose domain is in domains (or domains is None) and whose
\* codomain is in codomains (or codomains is None), in their original relative
\* order: nothing that satisfies both constraints is dropped and nothing else
\* is kept.
C18_ConstrainKeepsExactly ==
    last.op = "constrain"
        => /\ last.exc = "none"
                  <=> Range(last.domains.list) \cup Range(last.codomains.list)
                          \subseteq Classes
           /\ last.exc = "none"
                  => /\ lhs.name = was.name
                     /\ \A i \in DOMAIN lhs.maps :
                            /\ Admitted(lhs.maps[i])
                            /\ \E j \in DOMAIN was.maps :
                                   was.maps[j] = lhs.maps[i]
                     /\ \A j \in DOMAIN was.maps :
                            Admitted(was.maps[j])
                                => \E i \in DOMAIN lhs.maps :
                                       lhs.maps[i] = was.maps[j]
                     /\ \A i1 \in DOMAIN lhs.maps : \A i2 \in DOMAIN lhs.maps :
                            i1 < i2
                                => \E j1 \in DOMAIN was.maps :
                                   \E j2 \in DOMAIN was.maps :
                                       /\ j1 < j2
                                       /\ was.maps[j1] = lhs.maps[i1]
                                       /\ was.maps[j2] = lhs.maps[i2]

\* both lists given; the first member is dropped, the other two are kept
C18_Witness ==
    /\ last.op = "constrain" /\ last.exc = "none"
    /\ ~last.domains.none /\ ~last.codomains.none
    /\ Len(was.maps) = 3 /\ Len(lhs.maps) = 2
    /\ ~Admitted(was.maps[1])
    /\ lhs.maps = <<was.maps[2], was.maps[3]>>

\* only the codomains are constrained
C18_WitnessOneList ==
    /\ last.op = "constrain" /\ last.exc = "none"
    /\ last.domains.none /\ last.codomains = Some(<<"B">>)
    /\ Len(was.maps) = 3 /\ Len(lhs.maps) = 1

\* ---------------------------------------------------------------- Map claims
\* mapA >> mapB has been evaluated
Composing == mapAB.exc # "pending"

\* C13: Map >> Map succeeds if and only if the left Map's codomain is the very
\* same type tag as the right Map's domain; a subclass of it, or a distinct tag
\* of the same name, does not match: the composition fails with an error and
\* produces no Map.
C13_ComposesOnIdentity ==
    Composing
        => LET cod == mapA.val.codomain
               dom == mapB.val.domain
           IN  /\ mapAB.exc = "none" <=> cod = dom
               /\ mapAB.exc # "none" => mapAB = Raise("ValueError")
               /\ (cod # dom /\ issubclass(cod, dom)) => mapAB.exc # "none"
               /\ (cod # dom /\ __name__(cod) = __name__(dom))
                      => mapAB.exc # "none"

C13_Witness ==
    /\ Composing /\ mapAB.exc = "none"
    /\ mapA.val.codomain = SubA /\ mapB.val.domain = SubA

C13_WitnessSubclass ==
    /\ Composing /\ mapAB = Raise("ValueError")
    /\ mapA.val.codomain = SubA /\ mapB.val.domain = "A"

C13_WitnessSameName ==
    /\ Composing /\ mapAB = Raise("ValueError")
    /\ mapA.val.codomain = "A" /\ mapB.val.domain = OtherA

\* C14: a successful a >> b yields a Map whose domain is a.domain, whose
\* codomain is b.codomain, and whose application to a value v is b's function
\* applied to the result of a's function on v.
C14_CompositionRunsLeftThenRight ==
    (Composing /\ mapAB.exc = "none")
        => /\ mapAB.val.cls = "Map"
           /\ mapAB.val.domain = mapA.val.domain
           /\ mapAB.val.codomain = mapB.val.codomain
           /\ mstep = "called"
                  => /\ mvalue[2] = Map_call(mapB.val, Map_call(mapA.val, mvalue[1]))
                     /\ mvalue[2] = mvalue[1] \o <<"f", "g">>

C14_Witness ==
    /\ mstep = "called"
    /\ mapA.val.domain # mapB.val.domain
    /\ mapA.val.codomain # mapB.val.codomain
    /\ mapAB.val.domain = mapA.val.domain
    /\ mvalue[2] = mvalue[1] \o <<"f", "g">>

\* the last Map(...) was the construction of mapA
ConstructedA == mapA.exc # "pending" /\ mapB.exc = "pending"

TypeArgsOk ==
    /\ margs.domain \in Classes \cup {NoneVal}
    /\ margs.codomain \in Classes \cup {NoneVal}

\* the parameters of f that can take a positional argument, and those of them
\* a call must supply
Positional(fn) ==
    {i \in DOMAIN fn.params :
        fn.params[i].kind \in
            {POSITIONAL_ONLY, POSITIONAL_OR_KEYWORD, VAR_POSITIONAL}}

Required(fn) ==
    {i \in DOMAIN fn.params :
        /\ fn.params[i].kind \in {POSITIONAL_ONLY, POSITIONAL_OR_KEYWORD}
        /\ ~fn.params[i].default}

C15_WitnessVariadic ==
    /\ ConstructedA /\ TypeArgsOk /\ mapA.exc = "none"
    /\ margs.fn.params = <<Param(VAR_POSITIONAL, FALSE)>>

C15_WitnessTwoRequired ==
    /\ ConstructedA /\ TypeArgsOk /\ mapA.exc = "ValueError"
    /\ Cardinality(Required(margs.fn)) = 2

C15_WitnessKeywordOnly ==
    /\ ConstructedA /\ TypeArgsOk /\ mapA.exc = "ValueError"
    /\ margs.fn.params = <<Param(KEYWORD_ONLY, FALSE)>>

\* the Map the last Map(...) was to build
Constructed == IF mapB.exc = "pending" THEN mapA ELSE mapB

FunctionOk ==
    /\ margs.fn.callable
    /\ Cardinality(Required(margs.fn)) <= 1
    /\ Positional(margs.fn) # {}

Stored(t) == IF t = NoneVal THEN NoneType ELSE t

\* C16: Map construction succeeds on its type arguments exactly when each of
\* domain and codomain is None or a type; None is stored as the NoneType tag,
\* so Map(A, None, f) >> Map(None, B, g) composes; any other value that is not
\* a type makes construction fail.
C16_TypeArgumentsNoneOrType ==
    /\ (mapA.exc # "pending" /\ ~Composing /\ FunctionOk)
           => /\ Constructed.exc = "none" <=> TypeArgsOk
              /\ Constructed.exc \in {"none", "ValueError"}
              /\ Constructed.exc = "none"
                     => /\ Constructed.val.domain = Stored(margs.domain)
                        /\ Constructed.val.codomain = Stored(margs.codomain)
    /\ (Composing /\ mgiven[1][2] = NoneVal /\ mgiven[2][1] = NoneVal)
           => mapAB.exc = "none"

C16_Witness ==
    /\ mstep = "called"
    /\ mgiven = <<<<"A", NoneVal>>, <<NoneVal, "B">>>>
    /\ mapAB.val.domain = "A" /\ mapAB.val.codomain = "B"

C16_WitnessNotAClass ==
    /\ ConstructedA /\ FunctionOk
    /\ margs.domain = "A" /\ margs.codomain = NotAClass
    /\ mapA.exc = "ValueError"

\* ---------------------------------------------------------------- more claims
Intruders == {i \in DOMAIN routers : routers[i].cls # "Router"}

\* C21: if any element of the stage list passed to pcompile is not a Router,
\* pcompile fails with the argument error, before any constrain or compose
\* step is attempted (no error of such a step is ever the outcome), whatever
\* the other elements and the requested types are.
C21_NonRouterIsArgumentError ==
    (phase = "intruded" /\ Intruders # {})
        => /\ result = NotAllRouters
           /\ constrained = NotAllRouters

\* the intruder comes last, after two Routers whose composition collides, and
\* the requested output is None
C21_Witness ==
    /\ phase = "intruded" /\ result = NotAllRouters
    /\ Len(routers) = 3 /\ Intruders = {3}
    /\ Collide(routers[1], routers[2])
    /\ output = NoneVal

C21_WitnessOnly ==
    /\ phase = "intruded" /\ result = NotAllRouters
    /\ Len(routers) = 1

\* the composable pairs of the operands of the last >>: positions (i, j) of a
\* member of the receiver and a member of the right operand
Pairs ==
    {p \in (DOMAIN was.maps) \X (DOMAIN rhs.maps) :
        was.maps[p[1]].codomain = rhs.maps[p[2]].domain}

\* the place of a pair when pairs are listed by i and then by j
Rank(p) ==
    1 + Cardinality({q \in Pairs :
                        q[1] < p[1] \/ (q[1] = p[1] /\ q[2] < p[2])})

\* C22: self >> other, when it does not raise, holds exactly the compositions
\* l >> r for every pair (l in self, r in other) with l.codomain identical to
\* r.domain, ordered by l's position in self and then by r's position in
\* other; the pre-filters drop no composable pair, and the result is empty
\* when either operand is empty.
C22_RshiftHoldsTheComposablePairs ==
    (last.op = "rshift" /\ last.exc = "none")
        => /\ lhs.name = was.name \o rhs.name
           /\ Len(lhs.maps) = Cardinality(Pairs)
           /\ \A p \in Pairs :
                  /\ lhs.maps[Rank(p)].cls = "Map"
                  /\ lhs.maps[Rank(p)].domain = was.maps[p[1]].domain
                  /\ lhs.maps[Rank(p)].codomain = rhs.maps[p[2]].codomain
                  /\ lhs.maps[Rank(p)].f = was.maps[p[1]].f \o rhs.maps[p[2]].f
           /\ (was.maps = <<>> \/ rhs.maps = <<>>) => lhs.maps = <<>>

\* two compositions whose order tells the loops apart, and a member of the
\* receiver that composes with nothing
C22_Witness ==
    /\ last.op = "rshift" /\ last.exc = "none"
    /\ Len(lhs.maps) >= 2
    /\ \E p \in Pairs : \E q \in Pairs : p[1] < q[1] /\ p[2] > q[2]
    /\ \E i \in DOMAIN was.maps : \A p \in Pairs : p[1] # i

C22_WitnessEmptyOperand ==
    /\ last.op = "rshift" /\ last.exc = "none"
    /\ was.maps # <<>> /\ rhs.maps = <<>> /\ lhs.maps = <<>>
    /\ lhs.name = <<"l", "r">>

C23_WitnessCompiled ==
    /\ pc = "compiled" /\ Len(routers) = 3 /\ result.exc = "none"
    /\ invoked = <<>>

\* the last constrain was given no constraint at all
Unconstrained ==
    last.op = "constrain" /\ last.domains.none /\ last.codomains.none

C24_WitnessRaised ==
    /\ last.op = "rshift" /\ last.exc = "RedundancyError"
    /\ lhs = was /\ Len(rhs.maps) >= 2 /\ rhs.maps = members

C24_WitnessCompiled ==
    /\ phase = "compiled" /\ routers = <<lhs>> /\ Len(lhs.maps) >= 2
    /\ result.exc = "NoRouteError"

\* ------------------------------------------------- pipeline/pampi/join.py
\* most samples joined at once
MaxSamples == 2
\* most reads of one sample
MaxReads == 2

Min(x, y) == IF x < y THEN x ELSE y

\* str.format of a template with one positional argument: every "{}" piece
\* of the template becomes the decimal text of the argument
format(template, k) ==
    [i \in DOMAIN template |->
        IF template[i] = "{}" THEN ToString(k) ELSE template[i]]

\* faulty variant: numbering from zero
_make_counter_from_zero(start, template, n) ==
    [k \in 1 .. n |-> format(template, k - 1)]

\* the first n names drawn from map(template.format, count(start))
_make_counter(start, template, n) ==
    [k \in 1 .. n |-> format(template, start + k - 1)]

\* itertools.chain.from_iterable, and a yield from per element
RECURSIVE chain(_)
chain(seqs) ==
    IF seqs = <<>> THEN <<>> ELSE Head(seqs) \o chain(Tail(seqs))

\* zip(name_generators, fastqs) stops with the shorter of its arguments;
\* zip(names, reads) stops with the reads, the names never run out
join_fastqc(name_templates, fastqs) ==
    LET renamed(i) ==
            LET reads == fastqs[i]
                names == _make_counter(1, name_templates[i], Len(reads))
            IN  [k \in DOMAIN reads |->
                    <<names[k], reads[k][2], reads[k][3]>>]
    IN  chain([i \in 1 .. Min(Len(name_templates), Len(fastqs)) |->
                  renamed(i)])

join_fasta(name_templates, fastas) ==
    LET renamed(i) ==
            LET reads == fastas[i]
                names == _make_counter(1, name_templates[i], Len(reads))
            IN  [k \in DOMAIN reads |-> <<names[k], reads[k][2]>>]
    IN  chain([i \in 1 .. Min(Len(name_templates), Len(fastas)) |->
                  renamed(i)])

\* how many names the first j clusters of one sample have drawn from that
\* sample's counter: islice(names, 0, len(seqs)) draws len(seqs) more
RECURSIVE taken(_, _)
taken(clusters_, j) ==
    IF j = 0 THEN 0 ELSE taken(clusters_, j - 1) + Len(clusters_[j][2])

\* fn.iters.group_by into a dict, which keeps its keys in the order of their
\* first insertion: a sequence of <<key, items>>
RECURSIVE group_by(_, _)
group_by(items, grouped) ==
    IF items = <<>> THEN grouped
    ELSE LET item == Head(items)
             at == {g \in DOMAIN grouped : grouped[g][1] = item[1]}
         IN  group_by(Tail(items),
                 IF at = {}
                 THEN Append(grouped, <<item[1], <<item>>>>)
                 ELSE [g \in DOMAIN grouped |->
                          IF g \in at
                          THEN <<grouped[g][1], Append(grouped[g][2], item)>>
                          ELSE grouped[g]])

\* faulty variant: every cluster draws from a fresh counter
join_clusters_restarting(name_templates, clusters) ==
    LET renamed(i) ==
            [j \in DOMAIN clusters[i] |->
                <<clusters[i][j][1],
                  _make_counter(1, name_templates[i],
                                Len(clusters[i][j][2]))>>]
        grouped == group_by(
            chain([i \in 1 .. Min(Len(name_templates), Len(clusters)) |->
                      renamed(i)]), <<>>)
    IN  [g \in DOMAIN grouped |->
            <<grouped[g][1],
              chain([m \in DOMAIN grouped[g][2] |-> grouped[g][2][m][2]])>>]

join_clusters(name_templates, clusters) ==
    LET renamed(i) ==
            LET clusters_ == clusters[i]
                names == _make_counter(1, name_templates[i],
                                       taken(clusters_, Len(clusters_)))
            IN  [j \in DOMAIN clusters_ |->
                    <<clusters_[j][1],
                      SubSeq(names, taken(clusters_, j - 1) + 1,
                             taken(clusters_, j))>>]
        grouped == group_by(
            chain([i \in 1 .. Min(Len(name_templates), Len(clusters)) |->
                      renamed(i)]), <<>>)
    IN  [g \in DOMAIN grouped |->
            <<grouped[g][1],
              chain([m \in DOMAIN grouped[g][2] |-> grouped[g][2][m][2]])>>]

\* ---- inputs of the join functions
\* parsed fastq records: name, sequence, quality
Fastq == {<<"@a", "ACGT", "IIII">>, <<"@b", "TTGA", "!!!!">>}
\* parsed fasta records: name, sequence
Fasta == {<<r[1], r[2]>> : r \in Fastq}
\* the templates the join dispatch builds from a sample's name
Templates == {<<"@x_", "{}">>, <<"@y_", "{}", "/1">>}
ClusterNames == {"c1", "c2"}

SeqsUpTo(S, n) == UNION {[1 .. m -> S] : m \in 0 .. n}

\* the clusters of one sample: every cluster has a member, and the sample
\* has MaxReads reads at most
Clusters ==
    LET seqs(n) == [k \in 1 .. n |-> "read"]
        one == {<<c, seqs(n)>> : c \in ClusterNames, n \in 1 .. MaxReads}
    IN  {cs \in SeqsUpTo(one, MaxReads) : taken(cs, Len(cs)) <= MaxReads}

\* one template per sample, as the join dispatch passes them
InitJ ==
    /\ jkind \in {"fastq", "fasta", "clusters"}
    /\ \E n \in 0 .. MaxSamples :
          /\ jtemplates \in [1 .. n -> Templates]
          /\ jsamples \in [1 .. n ->
                CASE jkind = "fastq" -> SeqsUpTo(Fastq, MaxReads)
                  [] jkind = "fasta" -> SeqsUpTo(Fasta, MaxReads)
                  [] OTHER -> Clusters]
    /\ joined = NotJoined

JoinFastqc ==
    /\ jkind = "fastq" /\ ~joined.done
    /\ joined' = [done |-> TRUE, out |-> join_fastqc(jtemplates, jsamples)]
    /\ UNCHANGED <<jkind, jtemplates, jsamples, varsP, varsR, varsM, varsA, varsF>>

JoinFasta ==
    /\ jkind = "fasta" /\ ~joined.done
    /\ joined' = [done |-> TRUE, out |-> join_fasta(jtemplates, jsamples)]
    /\ UNCHANGED <<jkind, jtemplates, jsamples, varsP, varsR, varsM, varsA, varsF>>

JoinClusters ==
    /\ jkind = "clusters" /\ ~joined.done
    /\ joined' = [done |-> TRUE, out |-> join_clusters(jtemplates, jsamples)]
    /\ UNCHANGED <<jkind, jtemplates, jsamples, varsP, varsR, varsM, varsA, varsF>>

NextJoin == JoinFastqc \/ JoinFasta \/ JoinClusters

InitJoin == IdleP /\ IdleR /\ IdleM /\ InitJ /\ IdleA /\ IdleF

SpecJoin == InitJoin /\ [][NextJoin]_vars

\* ---- claims about the join functions
\* the records that come before sample i in the concatenation
RECURSIVE Before(_)
Before(i) == IF i <= 1 THEN 0 ELSE Before(i - 1) + Len(jsamples[i - 1])

\* C25: join_fasta and join_fastqc, given one template per sample, return as
\* many records as the samples hold together; the k-th read of sample i
\* stands right after all the reads of the samples before i and the first
\* k - 1 reads of i, keeps its sequence (and quality), and is named by the
\* template of sample i formatted with k.
C25_JoinConcatenatesAndRenames ==
    (jkind \in {"fastq", "fasta"} /\ joined.done) =>
        /\ Len(joined.out) = Before(Len(jsamples) + 1)
        /\ \A i \in DOMAIN jsamples : \A k \in DOMAIN jsamples[i] :
              LET record == joined.out[Before(i) + k]
              IN  /\ record[1] = format(jtemplates[i], k)
                  /\ Tail(record) = Tail(jsamples[i][k])

\* two samples with two reads each, named 1, 2, 1, 2 under their templates
C25_Witness ==
    /\ jkind = "fastq" /\ joined.done
    /\ Len(jsamples) = 2 /\ Len(jsamples[1]) = 2 /\ Len(jsamples[2]) = 2
    /\ jtemplates[1] # jtemplates[2]
    /\ joined.out[4][1] = <<"@y_", "2", "/1">>
    /\ joined.out[4][3] = jsamples[2][2][3]

C25_WitnessFasta ==
    /\ jkind = "fasta" /\ joined.done
    /\ Len(jsamples) = 2 /\ jsamples[1] = <<>> /\ Len(jsamples[2]) = 2
    /\ joined.out[1][1] = <<"@x_", "1">>

\* the clusters of all samples in the order the function meets them, each as
\* <<sample, cluster>>
Met == chain([i \in DOMAIN jsamples |->
                 [j \in DOMAIN jsamples[i] |-> <<i, j>>]])

NameOf(p) == jsamples[p[1]][p[2]][1]

\* the names the members of cluster p get: its sample's template formatted
\* with the numbers that follow those of the sample's earlier clusters
Numbered(p) ==
    LET before == taken(jsamples[p[1]], p[2] - 1)
    IN  [m \in DOMAIN jsamples[p[1]][p[2]][2] |->
            format(jtemplates[p[1]], before + m)]

FirstMet(c) == CHOOSE q \in DOMAIN Met :
    /\ NameOf(Met[q]) = c
    /\ \A q2 \in DOMAIN Met : NameOf(Met[q2]) = c => q <= q2

RECURSIVE Members(_)
Members(out) == IF out = <<>> THEN 0
                ELSE Len(Head(out)[2]) + Members(Tail(out))

\* C26: join_clusters numbers the reads of a sample from 1 on across the
\* sample's clusters in their order, returns one cluster per cluster name,
\* in the order in which the names first appear, holding the renamed members
\* of all clusters of that name in the order of the samples, and keeps the
\* number of members.
C26_JoinClustersMergesByName ==
    (jkind = "clusters" /\ joined.done) =>
        /\ {joined.out[g][1] : g \in DOMAIN joined.out}
               = {NameOf(Met[q]) : q \in DOMAIN Met}
        /\ \A g, h \in DOMAIN joined.out :
              g < h => FirstMet(joined.out[g][1]) < FirstMet(joined.out[h][1])
        /\ \A g \in DOMAIN joined.out :
              joined.out[g][2] =
                  chain([q \in DOMAIN Met |->
                            IF NameOf(Met[q]) = joined.out[g][1]
                            THEN Numbered(Met[q]) ELSE <<>>])
        /\ Members(joined.out) =
              Members(chain([i \in DOMAIN jsamples |-> jsamples[i]]))

\* a cluster name shared by two samples, the first sample numbering across
\* two clusters
C26_Witness ==
    /\ jkind = "clusters" /\ joined.done
    /\ Len(jsamples) = 2 /\ Len(jsamples[1]) = 2 /\ Len(jsamples[2]) = 1
    /\ NameOf(<<1, 1>>) = "c2" /\ NameOf(<<1, 2>>) = "c1"
    /\ NameOf(<<2, 1>>) = "c1"
    /\ jtemplates[1] # jtemplates[2]
    /\ Len(joined.out) = 2 /\ joined.out[1][1] = "c2"
    /\ Len(joined.out[2][2]) = 3
    /\ joined.out[2][2][1] = format(jtemplates[1], 2)


\* ------------------------------------------- grouping of Router.__rshift__
\* the Routers Router(who, maps) constructs
Routers(who) ==
    {Router(<<who>>, ms).val :
        ms \in {l \in MemberLists(who) : Router(<<who>>, l).exc = "none"}}

InitA ==
    /\ ra \in Routers("a")
    /\ rb \in Routers("b")
    /\ rc \in Routers("c")
    /\ leftFirst = Raise("pending")
    /\ rightFirst = Raise("pending")
    /\ astep = "left"

\* (ra >> rb) >> rc: an exception of the inner >> is the outcome
ComposeLeftFirst ==
    /\ astep = "left"
    /\ leftFirst' = LET inner == Router_rshift(ra, rb)
                    IN  IF inner.exc # "none" THEN inner
                        ELSE Router_rshift(inner.val, rc)
    /\ astep' = "right"
    /\ UNCHANGED <<ra, rb, rc, rightFirst>>
    /\ UNCHANGED <<varsP, varsR, varsM, varsJ, varsF>>

\* ra >> (rb >> rc)
ComposeRightFirst ==
    /\ astep = "right"
    /\ rightFirst' = LET inner == Router_rshift(rb, rc)
                     IN  IF inner.exc # "none" THEN inner
                         ELSE Router_rshift(ra, inner.val)
    /\ astep' = "done"
    /\ UNCHANGED <<ra, rb, rc, leftFirst>>
    /\ UNCHANGED <<varsP, varsR, varsM, varsJ, varsF>>

NextAssoc == ComposeLeftFirst \/ ComposeRightFirst

InitAssoc == IdleP /\ IdleR /\ IdleM /\ IdleJ /\ InitA /\ IdleF

SpecAssoc == InitAssoc /\ [][NextAssoc]_vars

\* C27: whenever (a >> b) >> c and a >> (b >> c) both construct, their
\* members have the same signatures in the same order.
C27_GroupingKeepsSignatures ==
    (astep = "done" /\ leftFirst.exc = "none" /\ rightFirst.exc = "none")
        => signatures(leftFirst.val) = signatures(rightFirst.val)

\* both groupings construct a Router of several members from operands of
\* several members
C27_Witness ==
    /\ astep = "done" /\ leftFirst.exc = "none" /\ rightFirst.exc = "none"
    /\ Len(leftFirst.val.maps) >= 3
    /\ Len(ra.maps) >= 2 /\ Len(rb.maps) >= 3 /\ Len(rc.maps) >= 2
    /\ signatures(leftFirst.val)[1] # signatures(leftFirst.val)[2]

\* the groupings differ in whether they construct at all
C27_WitnessOneRaises ==
    /\ astep = "done"
    /\ leftFirst.exc = "RedundancyError" /\ rightFirst.exc = "none"


\* ------------------------------------------------- pipeline/pampi/data.py
\* most files of one resource
MaxFiles == 2

\* the paths the user lists as input, a directory, the random name a stage
\* writes to when it has no output destination, and the path it writes to
\* when it has one
UserFiles == {"u1", "u2"}
Directories == {"dir"}
TempFiles == {"tmp"}
OutFiles == {"out"}

\* os.path.exists and os.path.isfile on the file system fs
exists(path, files) == path \in files \cup Directories
isfile(path, files) == path \in files

\* the names of `files` that do not exist, and those that are no files
_missing(files, on) == SelectSeq(files, LAMBDA f : ~exists(f, on))
_nonfile(files, on) == SelectSeq(files, LAMBDA f : ~isfile(f, on))

\* SampleFiles(name, *files, delete=delete)
SampleFiles_init(files, delete, on) ==
    IF _missing(files, on) # <<>> THEN Raise("FileNotFoundError")
    ELSE IF _nonfile(files, on) # <<>> THEN Raise("ValueError")
    ELSE New([made |-> TRUE, files |-> files, released |-> files = <<>>,
              delete |-> delete])

\* the property files
SampleFiles_files(self, on) ==
    IF self.released THEN Ok(NoneVal)
    ELSE IF _missing(self.files, on) # <<>>
    THEN RaiseMsg("RuntimeError", <<"accessing corrupted ", "resource">>)
    ELSE Ok(self.files)

\* faulty variant: a released resource can be entered
VolatileResource_enter_released(self) == Ok(self)

\* VolatileResource.__enter__
VolatileResource_enter(self) ==
    IF self.released
    THEN RaiseMsg("RuntimeError", <<"accessing a released resource">>)
    ELSE Ok(self)

\* faulty variant: release removes the files whatever delete says
SampleFiles_release_always(self, on) ==
    IF ~self.released
    THEN LET files == SampleFiles_files(self, on)
         IN  IF files.exc # "none"
             THEN [exc |-> files.exc, self |-> self, fs |-> on]
             ELSE [exc |-> "none", self |-> [self EXCEPT !.released = TRUE],
                   fs |-> on \ Range(files.val)]
    ELSE [exc |-> "none", self |-> [self EXCEPT !.released = TRUE], fs |-> on]

\* release(): the object and the file system it leaves, or the exception of
\* self.files, raised before anything is removed or marked; os.remove of a
\* name removed earlier in the loop is suppressed
SampleFiles_release(self, on) ==
    IF ~self.released /\ self.delete
    THEN LET files == SampleFiles_files(self, on)
         IN  IF files.exc # "none"
             THEN [exc |-> files.exc, self |-> self, fs |-> on]
             ELSE [exc |-> "none", self |-> [self EXCEPT !.released = TRUE],
                   fs |-> on \ Range(files.val)]
    ELSE [exc |-> "none", self |-> [self EXCEPT !.released = TRUE], fs |-> on]

Holders == {"sample", "product"}

InitF ==
    /\ fs \in SUBSET UserFiles
    /\ held = [id \in Holders |-> NoResource]
    /\ flast = NoOperation
    /\ removed = {}

Others == <<varsP, varsR, varsM, varsJ, varsA>>

\* the driver builds its input sample: single_t(name, *files, delete=False)
DriverBuild ==
    /\ ~held["sample"].made
    /\ \E files \in SeqsUpTo(UserFiles \cup Directories, MaxFiles) :
          LET r == SampleFiles_init(files, FALSE, fs)
          IN  /\ held' = IF r.exc = "none"
                         THEN [held EXCEPT !["sample"] = r.val] ELSE held
              /\ flast' = [NoOperation EXCEPT !.op = "build",
                              !.id = "sample", !.exc = r.exc]
    /\ UNCHANGED <<fs, removed, Others>>

\* a stage writes its output and wraps it: under a random unused name with
\* delete=True when it has no destination, at the destination with
\* delete=False otherwise
StageProduce ==
    /\ held["sample"].made /\ ~held["product"].made
    /\ \E path \in TempFiles \cup OutFiles :
          /\ path \in TempFiles => ~exists(path, fs)
          /\ fs' = fs \cup {path}
          /\ LET r == SampleFiles_init(<<path>>, path \in TempFiles, fs')
             IN  /\ held' = [held EXCEPT !["product"] = r.val]
                 /\ flast' = [NoOperation EXCEPT !.op = "produce",
                                 !.id = "product", !.exc = r.exc]
    /\ UNCHANGED <<removed, Others>>

\* with resource: ...
Enter ==
    \E id \in Holders :
        /\ held[id].made
        /\ LET r == VolatileResource_enter(held[id])
           IN  flast' = [NoOperation EXCEPT !.op = "enter", !.id = id,
                            !.exc = r.exc, !.was = held[id].released]
        /\ UNCHANGED <<fs, held, removed, Others>>

\* resource.files
Files ==
    \E id \in Holders :
        /\ held[id].made
        /\ LET r == SampleFiles_files(held[id], fs)
           IN  flast' = [NoOperation EXCEPT !.op = "files", !.id = id,
                            !.exc = r.exc, !.was = held[id].released,
                            !.val = IF r.exc = "none" THEN r.val ELSE NoneVal]
        /\ UNCHANGED <<fs, held, removed, Others>>

Released(op, id) ==
    /\ held[id].made
    /\ LET r == SampleFiles_release(held[id], fs)
       IN  /\ held' = [held EXCEPT ![id] = r.self]
           /\ fs' = r.fs
           /\ removed' = removed \cup {<<id, path>> : path \in fs \ r.fs}
           /\ flast' = [NoOperation EXCEPT !.op = op, !.id = id,
                            !.exc = r.exc, !.was = held[id].released,
                            !.gone = fs \ r.fs]
    /\ UNCHANGED Others

\* resource.release()
Release == \E id \in Holders : Released("release", id)

\* leaving the with block: __exit__ calls release()
Exit == \E id \in Holders : Released("exit", id)

\* something other than the pipeline removes a file
Vanish ==
    /\ \E path \in fs : fs' = fs \ {path}
    /\ flast' = [NoOperation EXCEPT !.op = "vanish"]
    /\ UNCHANGED <<held, removed, Others>>

NextFiles ==
    \/ DriverBuild \/ StageProduce \/ Enter \/ Files \/ Release \/ Exit
    \/ Vanish

InitFiles == IdleP /\ IdleR /\ IdleM /\ IdleJ /\ IdleA /\ InitF

SpecFiles == InitFiles /\ [][NextFiles]_vars

\* C28: no step takes a released resource back, and an operation on a
\* resource that was released before it finds it so: files yields None,
\* entering the context raises RuntimeError, release() and leaving the
\* context remove no file.
C28_ReleasedStaysReleased ==
    /\ [][\A id \in Holders :
              (held[id].made /\ held[id].released)
                  => (held'[id].made /\ held'[id].released)]_vars
    /\ [](flast.was =>
            /\ held[flast.id].released
            /\ flast.op = "files" => flast.exc = "none" /\ flast.val = NoneVal
            /\ flast.op = "enter" => flast.exc = "RuntimeError"
            /\ flast.op \in {"release", "exit"}
                   => flast.exc = "none" /\ flast.gone = {})

\* a second release() of a resource whose files the first one removed
C28_Witness ==
    /\ flast.op = "release" /\ flast.id = "product" /\ flast.was
    /\ held["product"].delete /\ <<"product", "tmp">> \in removed

C28_WitnessEnter ==
    /\ flast.op = "enter" /\ flast.was /\ flast.exc = "RuntimeError"
    /\ held[flast.id].files # <<>>

C28_WitnessFiles ==
    /\ flast.op = "files" /\ flast.was /\ flast.id = "sample"
    /\ held[flast.id].files # <<>>

\* release() of a resource that lost a file raises and leaves it unreleased
C28_WitnessCorrupted ==
    /\ flast.op \in {"release", "exit"} /\ flast.exc = "RuntimeError"
    /\ ~held[flast.id].released

\* C29: the driver's input sample has delete=False; every file a release
\* removed belonged to a resource made with delete=True, and none of them is
\* one of the user's files; a release of a delete=False resource removes
\* nothing.
C29_InputFilesAreNeverRemoved ==
    /\ held["sample"].made => ~held["sample"].delete
    /\ \A r \in removed : held[r[1]].delete /\ r[2] \notin UserFiles
    /\ (flast.op \in {"release", "exit"} /\ ~held[flast.id].delete)
           => flast.gone = {}

\* the input sample, with both of the user's files, is released while the
\* files stay; the stage's temporary product was removed by its release
C29_Witness ==
    /\ flast.op \in {"release", "exit"} /\ flast.id = "sample" /\ ~flast.was
    /\ held["sample"].released /\ Len(held["sample"].files) = 2
    /\ UserFiles \subseteq fs
    /\ removed = {<<"product", "tmp">>}


\* ---- the empty stage list
\* C30: pcompile of an empty stage list returns nothing: whatever the input
\* and output types, it raises the ValueError of unpacking an empty list,
\* which is neither NoRouteError nor AmbiguousError.
C30_EmptyStageListRaises ==
    (Compiled /\ Len(routers) = 0) =>
        /\ result.exc \notin {"none", "NoRouteError", "AmbiguousError"}
        /\ result = UnpackError
        /\ pc = "compiled" /\ applied = <<>>

C30_Witness ==
    /\ Compiled /\ routers = <<>> /\ output = NoneVal
    /\ result.exc = "ValueError"

C30_WitnessTyped ==
    /\ Compiled /\ routers = <<>> /\ input = "A" /\ output = "B"
    /\ result.exc = "ValueError"


====
